---- MODULE Spec2Model ----
(***************************************************************************)
(* Resilience toolkit of package lang: the supervised goroutine runner Go  *)
(* and the Recover functions (recover.go), the bounded retry loop Retry    *)
(* and the race RunWithTimeout (lang.go).                                  *)
(*                                                                         *)
(* Time is counted in ticks, TicksPerSecond ticks to the second.  The      *)
(* supervisor's restart state is kept relative to the present: the pair    *)
(* (lastRestartIsZero, sinceRestart) stands for the time.Time lastRestart, *)
(* sinceRestart being time.Now() - lastRestart saturated at one minute     *)
(* (the code compares the difference with time.Minute and minInterval      *)
(* only, so every larger value behaves alike).                             *)
(***************************************************************************)
EXTENDS Integers, Sequences, FiniteSets

\* ------------------------------------------------------------------ bounds
TicksPerSecond == 2
MaxPanics == 3
MaxAttempts == 3
MaxNegAttempts == 1
MaxTimeout == 2
MaxNesting == 1
MaxFaults == 2
MaxTicks == 4

\* --------------------------------------------------------------- constants
SecondsPerMinute == 60
maxRestartsPerMinute == 60

Second == TicksPerSecond
Minute == SecondsPerMinute * Second
minInterval == Minute \div maxRestartsPerMinute

\* A task that panics once more than the rate limit allows in a minute.
StormPanics == maxRestartsPerMinute + 1

Min(a, b) == IF a < b THEN a ELSE b

\* ------------------------------------------------------------------ values
NilLogger == "nil"
TheLogger == "logger"
Loggers == {NilLogger, TheLogger}

\* recover() returns nil (0) when the goroutine is not panicking; a task's
\* k-th execution panics with the payload k.
NoPanic == 0

\* A task f: nil, or a function whose first `panics` executions panic and
\* whose later executions either return normally or block forever.
NilFunc == [nil |-> TRUE, panics |-> 0, then |-> "return"]
Task(n, t) == [nil |-> FALSE, panics |-> n, then |-> t]
Tasks == {NilFunc} \cup {Task(n, t) : n \in 0..MaxPanics, t \in {"return", "block"}}
StormTask == Task(StormPanics, "block")

\* error values: nil, errors.New(s), and the *fmt.wrapError of fmt.Errorf
NilErr == [nil |-> TRUE, text |-> <<>>, cause |-> <<>>]
NewError(s) == [nil |-> FALSE, text |-> <<s>>, cause |-> <<>>]
Errs == {NewError("e1"), NewError("e2")}

\* values of the type parameter T (string): the zero value and another one
Zero == ""
Values == {Zero, "success"}
Outcomes == [val : Values, err : Errs \cup {NilErr}]

\* var ErrTimeout = errors.New("operation timed out")
ErrTimeout == NewError("operation timed out")

\* what the f of RunWithTimeout may return; ErrTimeout is exported, so f
\* may return it as well
TimeoutOutcomes == [val : Values, err : {NilErr, NewError("e1"), ErrTimeout}]

\* panic payloads: nil (not panicking), a string, an int
NoPayload == [type |-> "nil", s |-> "", n |-> 0]
StrPayload == [type |-> "string", s |-> "panic-error", n |-> 0]
IntPayload == [type |-> "int", s |-> "", n |-> 42]
Payloads == {StrPayload, IntPayload}

Variants == {"Recover", "RecoverWithErr", "RecoverWithErrAndStack", "RecoverWithHandler"}

\* default values handed to DefaultIfPanic: one no function returns, and
\* one that a function may return as well
Defaults == {"default", "success"}

\* The f of DefaultIfPanic: nil, or a function that first calls
\* DefaultIfPanic(inner.d, inner.fn) if it has an inner call, and then
\* returns val, returns what the inner call returned, or panics.
NilFn == [nil |-> TRUE, inner |-> <<>>, then |-> "return", val |-> Zero]
Fn(inner, then, v) == [nil |-> FALSE, inner |-> inner, then |-> then, val |-> v]

RECURSIVE Fns(_)
Fns(n) ==
    {NilFn} \cup {Fn(<<>>, "return", v) : v \in Values} \cup {Fn(<<>>, "panic", Zero)}
    \cup (IF n = 0 THEN {}
          ELSE {Fn(<<[d |-> d, fn |-> g]>>, "return", v) :
                    d \in Defaults, g \in Fns(n - 1), v \in Values}
               \cup {Fn(<<[d |-> d, fn |-> g]>>, t, Zero) :
                    d \in Defaults, g \in Fns(n - 1), t \in {"returnInner", "panic"}})

VARIABLES
    l,                  \* Go: the logger argument
    f,                  \* Go: the task argument
    callerPc,           \* Go: position of the goroutine that calls Go
    gs,                 \* Go: the live goroutines running foo
    restartLock,        \* Go: restartLock is held
    lastRestartIsZero,  \* Go: lastRestart.IsZero()
    sinceRestart,       \* Go: time.Now() - lastRestart, saturated at Minute
    logs,               \* entries received by Logger.Error
    launches,           \* number of `go foo()` statements executed
    panicked,           \* number of panics raised by executions of f
    returns,            \* number of executions of f that returned normally
    winFrom,            \* observer: relaunch that opens the window (0: none)
    winAge,             \* observer: ticks since the window opened
    winCount,           \* observer: relaunches inside the window
    maxAttempts,        \* Retry: argument
    i,                  \* Retry: loop counter
    lastErr,            \* Retry: lastErr
    calls,              \* Retry: outcomes of the invocations of f so far
    rpc,                \* Retry: position ("loop", "done")
    retVal,             \* Retry: returned value
    retErr,             \* Retry: returned error
    timeout,            \* RunWithTimeout: argument, in ticks
    tpc,                \* RunWithTimeout: position of the caller
    gpc,                \* RunWithTimeout: position of the goroutine running f
    fout,               \* RunWithTimeout: what f returned, <<>> before it returns
    result,             \* RunWithTimeout: the shared variable result
    terr,               \* RunWithTimeout: the shared variable err
    done,               \* RunWithTimeout: the channel done is closed
    wg,                 \* RunWithTimeout: counter of the WaitGroup
    timerLeft,          \* RunWithTimeout: ticks until time.After delivers (-1: no timer)
    tret,               \* RunWithTimeout: the returned pair, <<>> before the return
    won,                \* RunWithTimeout: the case the select chose
    first,              \* RunWithTimeout: which came first, f's return or the deadline
    variant,            \* Recover*: the function that is deferred
    direct,             \* Recover*: deferred directly, not called from a deferred closure
    rl,                 \* Recover*: the logger argument
    outerNil,           \* Recover*: the outerError argument is nil
    outerErr,           \* Recover*: the error *outerError points to
    handlerNil,         \* Recover*: the handler argument is nil
    handled,            \* Recover*: the arguments of the calls of handler
    payload,            \* Recover*: what the enclosing function panics with
    xpc,                \* Recover*: position of the enclosing function
    panicking,          \* Recover*: the goroutine is panicking
    xret,               \* Recover*: the value Recover* returned, <<>> before it
    defaultValue,       \* DefaultIfPanic: argument of the outermost call
    dfn,                \* DefaultIfPanic: argument f of the outermost call
    dstack,             \* DefaultIfPanic: the frames of the calls in progress
    dpanic,             \* DefaultIfPanic: the payload of the panic in progress
    dret,               \* DefaultIfPanic: what the outermost call returned
    dcalls,             \* DefaultIfPanic: number of function bodies started
    fpanicked,          \* Retry, RunWithTimeout: an invocation of f has panicked
    sups,               \* two calls of Go: the goroutine of each supervisor
    cells,              \* two calls of Go: restartLock and lastRestart of each call
    own,                \* two calls of Go: the time of each supervisor's own last fault
    clock               \* two calls of Go: ticks since the calls

goVars == <<l, f, callerPc, gs, restartLock, lastRestartIsZero, sinceRestart,
            logs, launches, panicked, returns, winFrom, winAge, winCount>>
retryVars == <<maxAttempts, i, lastErr, calls, rpc, retVal, retErr>>
toVars == <<timeout, tpc, gpc, fout, result, terr, done, wg, timerLeft, tret, won, first>>
recVars == <<variant, direct, rl, outerNil, outerErr, handlerNil, handled, payload, xpc,
             panicking, xret>>
dipVars == <<defaultValue, dfn, dstack, dpanic, dret, dcalls>>
twoVars == <<sups, cells, own, clock>>
extraVars == <<dipVars, fpanicked, twoVars>>
nonGoVars == <<retryVars, toVars, recVars, extraVars>>
vars == <<goVars, retryVars, toVars, recVars, extraVars>>

\* ---------------------------------------------------------------- logging
\* printErrorWithStack that returns before it calls the logger.
printErrorWithStackSilent(lg, logger, err) == lg

\* printErrorWithStack: nothing for a nil logger, else one Logger.Error call
\* with the stack, the key "error" and the payload.
printErrorWithStack(lg, logger, err) ==
    IF logger = NilLogger THEN lg ELSE Append(lg, <<"stack", "error", err>>)


\* ------------------------------------------------------- Go (recover.go)
Goroutine(id) == [id |-> id, pc |-> "fn", err |-> NoPanic, delay |-> 0, sleepLeft |-> 0]

Put(g, h) == (gs \ {g}) \cup {h}

obsVars == <<winFrom, winAge, winCount>>
timeVars == <<restartLock, lastRestartIsZero, sinceRestart>>

\* Go without the nil check of lines 18-20.
GoSpawnNoNilCheck ==
    /\ callerPc = "start"
    /\ gs' = gs \cup {Goroutine(launches + 1)}
    /\ launches' = launches + 1
    /\ callerPc' = "spawned"
    /\ UNCHANGED <<l, f, timeVars, logs, panicked, returns, obsVars, nonGoVars>>

\* Go, lines 17-62: return at once for a nil f, else build foo and `go foo()`.
GoSpawn ==
    /\ callerPc = "start"
    /\ IF f.nil
          THEN /\ callerPc' = "returned"
               /\ UNCHANGED <<gs, launches>>
          ELSE /\ gs' = gs \cup {Goroutine(launches + 1)}
               /\ launches' = launches + 1
               /\ callerPc' = "spawned"
    /\ UNCHANGED <<l, f, timeVars, logs, panicked, returns, obsVars, nonGoVars>>

\* Go that waits for the supervised goroutines before it returns.
GoReturnWaits ==
    /\ callerPc = "spawned"
    /\ gs = {}
    /\ callerPc' = "returned"
    /\ UNCHANGED <<l, f, gs, timeVars, logs, launches, panicked, returns, obsVars, nonGoVars>>

\* Go, line 63: the caller returns after the go statement, whatever foo does.
GoReturn ==
    /\ callerPc = "spawned"
    /\ callerPc' = "returned"
    /\ UNCHANGED <<l, f, gs, timeVars, logs, launches, panicked, returns, obsVars, nonGoVars>>

\* fn() at line 60 panics: calling a nil function panics, and the task's
\* execution number g.id panics when it is one of its first f.panics.
FnPanic ==
    \E g \in gs :
        /\ g.pc = "fn"
        /\ f.nil \/ g.id <= f.panics
        /\ gs' = Put(g, [g EXCEPT !.pc = "deferred", !.err = g.id])
        /\ panicked' = panicked + 1
        /\ UNCHANGED <<l, f, callerPc, timeVars, logs, launches, returns, obsVars, nonGoVars>>

\* fn() at line 60 returns normally; the deferred function runs next and
\* its recover() will return nil.
FnReturn ==
    \E g \in gs :
        /\ g.pc = "fn"
        /\ ~f.nil /\ g.id > f.panics /\ f.then = "return"
        /\ gs' = Put(g, [g EXCEPT !.pc = "deferred", !.err = NoPanic])
        /\ returns' = returns + 1
        /\ UNCHANGED <<l, f, callerPc, timeVars, logs, launches, panicked, obsVars, nonGoVars>>

\* The deferred function without the `err != nil` test of line 30.
RecoverAndLogAlways ==
    \E g \in gs :
        /\ g.pc = "deferred"
        /\ logs' = printErrorWithStack(logs, l, g.err)
        /\ gs' = Put(g, [g EXCEPT !.pc = "lock"])
        /\ UNCHANGED <<l, f, callerPc, timeVars, launches, panicked, returns, obsVars, nonGoVars>>

\* Lines 30-31: recover(); on a panic the payload is logged and the restart
\* path is entered, otherwise (lines 58-61) the deferred function returns
\* and the goroutine ends.
RecoverAndLog ==
    \E g \in gs :
        /\ g.pc = "deferred"
        /\ IF g.err # NoPanic
              THEN /\ logs' = printErrorWithStack(logs, l, g.err)
                   /\ gs' = Put(g, [g EXCEPT !.pc = "lock"])
              ELSE /\ gs' = gs \ {g}
                   /\ UNCHANGED logs
        /\ UNCHANGED <<l, f, callerPc, timeVars, launches, panicked, returns, obsVars, nonGoVars>>

\* Line 34: restartLock.Lock() blocks while the mutex is held.
Lock ==
    \E g \in gs :
        /\ g.pc = "lock"
        /\ ~restartLock
        /\ restartLock' = TRUE
        /\ gs' = Put(g, [g EXCEPT !.pc = "compute"])
        /\ UNCHANGED <<l, f, callerPc, lastRestartIsZero, sinceRestart, logs, launches,
                       panicked, returns, obsVars, nonGoVars>>

\* Line 36: now.Sub(lastRestart); the difference from the zero time is
\* larger than any minute.
Elapsed == IF lastRestartIsZero THEN Minute ELSE sinceRestart

\* A delay computed without the test `elapsed < minInterval` of line 43.
RestartDelayNoFloor(elapsed, isZero) ==
    IF elapsed < Minute /\ ~isZero THEN minInterval - elapsed ELSE 0

\* Lines 37-45: the delay before the relaunch.
RestartDelay(elapsed, isZero) ==
    IF elapsed < Minute /\ ~isZero
       THEN IF elapsed < minInterval THEN minInterval - elapsed ELSE 0
       ELSE 0

\* A critical section that records the fault time only when it delays.
ComputeUpdatesOnDelay ==
    \E g \in gs :
        /\ g.pc = "compute"
        /\ gs' = Put(g, [g EXCEPT !.pc = "unlock",
                                  !.delay = RestartDelay(Elapsed, lastRestartIsZero)])
        /\ IF RestartDelay(Elapsed, lastRestartIsZero) > 0
              THEN lastRestartIsZero' = FALSE /\ sinceRestart' = 0
              ELSE UNCHANGED <<lastRestartIsZero, sinceRestart>>
        /\ UNCHANGED <<l, f, callerPc, restartLock, logs, launches, panicked, returns,
                       obsVars, nonGoVars>>

\* Lines 35-48, under the lock: read the clock, compute the delay, and set
\* lastRestart to now.
Compute ==
    \E g \in gs :
        /\ g.pc = "compute"
        /\ gs' = Put(g, [g EXCEPT !.pc = "unlock",
                                  !.delay = RestartDelay(Elapsed, lastRestartIsZero)])
        /\ lastRestartIsZero' = FALSE
        /\ sinceRestart' = 0
        /\ UNCHANGED <<l, f, callerPc, restartLock, logs, launches, panicked, returns,
                       obsVars, nonGoVars>>

\* The restart path with the Unlock of line 49 left out.
UnlockForgotten ==
    \E g \in gs :
        /\ g.pc = "unlock"
        /\ gs' = Put(g, [g EXCEPT !.pc = IF g.delay > 0 THEN "sleep" ELSE "restart",
                                  !.sleepLeft = g.delay])
        /\ UNCHANGED <<l, f, callerPc, timeVars, logs, launches,
                       panicked, returns, obsVars, nonGoVars>>

\* Lines 49-54: restartLock.Unlock(), then time.Sleep(delay) if delay > 0.
Unlock ==
    \E g \in gs :
        /\ g.pc = "unlock"
        /\ restartLock' = FALSE
        /\ gs' = Put(g, [g EXCEPT !.pc = IF g.delay > 0 THEN "sleep" ELSE "restart",
                                  !.sleepLeft = g.delay])
        /\ UNCHANGED <<l, f, callerPc, lastRestartIsZero, sinceRestart, logs, launches,
                       panicked, returns, obsVars, nonGoVars>>

\* Line 53: time.Sleep returns once at least delay has passed.
Wake ==
    \E g \in gs :
        /\ g.pc = "sleep"
        /\ g.sleepLeft = 0
        /\ gs' = Put(g, [g EXCEPT !.pc = "restart"])
        /\ UNCHANGED <<l, f, callerPc, timeVars, logs, launches, panicked, returns,
                       obsVars, nonGoVars>>

\* The observer counts the relaunches of one minute, starting with relaunch
\* number winFrom (relaunch r is the launch r + 1).
WinCountAfter(r) ==
    IF winFrom = 0 THEN winCount
    ELSE IF r = winFrom THEN 1
    ELSE IF r > winFrom /\ winAge < Minute THEN winCount + 1
    ELSE winCount

\* A restart path with `go foo()` written twice.
RestartTwice ==
    \E g \in gs :
        /\ g.pc = "restart"
        /\ gs' = (gs \ {g}) \cup {Goroutine(launches + 1), Goroutine(launches + 2)}
        /\ launches' = launches + 2
        /\ winCount' = WinCountAfter(launches)
        /\ UNCHANGED <<l, f, callerPc, timeVars, logs, panicked, returns, winFrom, winAge,
                       nonGoVars>>

\* A restart path that ends without `go foo()`.
RestartNoSpawn ==
    \E g \in gs :
        /\ g.pc = "restart"
        /\ gs' = gs \ {g}
        /\ UNCHANGED <<l, f, callerPc, timeVars, logs, launches, panicked, returns, obsVars,
                       nonGoVars>>

\* Lines 57-61: `go foo()` starts the next execution in a new goroutine;
\* the deferred function returns and the old goroutine ends.
Restart ==
    \E g \in gs :
        /\ g.pc = "restart"
        /\ gs' = (gs \ {g}) \cup {Goroutine(launches + 1)}
        /\ launches' = launches + 1
        /\ winCount' = WinCountAfter(launches)
        /\ UNCHANGED <<l, f, callerPc, timeVars, logs, panicked, returns, winFrom, winAge,
                       nonGoVars>>

\* One tick of time passes: lastRestart grows older, sleepers come closer
\* to their wake-up, the observer's window ages.
Tick ==
    /\ sinceRestart' = IF lastRestartIsZero THEN sinceRestart ELSE Min(sinceRestart + 1, Minute)
    /\ gs' = {IF g.pc = "sleep" /\ g.sleepLeft > 0
                 THEN [g EXCEPT !.sleepLeft = g.sleepLeft - 1] ELSE g : g \in gs}
    /\ winAge' = IF winCount > 0 THEN Min(winAge + 1, Minute) ELSE winAge
    /\ UNCHANGED <<l, f, callerPc, restartLock, lastRestartIsZero, logs, launches, panicked,
                   returns, winFrom, winCount, nonGoVars>>

\* Time as it passes when the task panics at once and no step but the sleep
\* takes any time.
TickWhileSleeping ==
    /\ \E g \in gs : g.pc = "sleep" /\ g.sleepLeft > 0
    /\ Tick

RetryIdle ==
    /\ maxAttempts = 0 /\ i = 0 /\ lastErr = NilErr /\ calls = <<>>
    /\ rpc = "idle" /\ retVal = Zero /\ retErr = NilErr

TimeoutIdle ==
    /\ timeout = 0 /\ tpc = "idle" /\ gpc = "none" /\ fout = <<>>
    /\ result = Zero /\ terr = NilErr /\ done = FALSE /\ wg = 0
    /\ timerLeft = 0 - 1 /\ tret = <<>> /\ won = "none" /\ first = "none"

RecoverIdle ==
    /\ variant = "Recover" /\ direct = TRUE /\ rl = NilLogger
    /\ outerNil = TRUE /\ outerErr = NilErr /\ handlerNil = TRUE /\ handled = <<>>
    /\ payload = NoPayload /\ xpc = "idle" /\ panicking = FALSE /\ xret = <<>>

DipIdle ==
    /\ defaultValue = Zero /\ dfn = NilFn /\ dstack = <<>> /\ dpanic = NoPayload
    /\ dret = <<>> /\ dcalls = 0

Supervisors == {1, 2}

TwoIdle ==
    /\ sups = [k \in Supervisors |-> [pc |-> "idle", delay |-> 0, sleepLeft |-> 0, n |-> 0]]
    /\ cells = [k \in Supervisors |-> [lock |-> FALSE, isZero |-> TRUE, since |-> 0]]
    /\ own = [k \in Supervisors |-> [isZero |-> TRUE, since |-> 0]]
    /\ clock = 0

ExtraIdle == DipIdle /\ fpanicked = FALSE /\ TwoIdle

GoIdle ==
    /\ l = NilLogger /\ f = NilFunc /\ winFrom = 0
    /\ callerPc = "idle" /\ gs = {} /\ restartLock = FALSE
    /\ lastRestartIsZero = TRUE /\ sinceRestart = 0
    /\ logs = <<>> /\ launches = 0 /\ panicked = 0 /\ returns = 0
    /\ winAge = 0 /\ winCount = 0

GoStart ==
    /\ callerPc = "start" /\ gs = {} /\ restartLock = FALSE
    /\ lastRestartIsZero = TRUE /\ sinceRestart = 0
    /\ logs = <<>> /\ launches = 0 /\ panicked = 0 /\ returns = 0
    /\ winAge = 0 /\ winCount = 0

\* A call Go(l, f) for any logger and any task.
Init ==
    /\ l \in Loggers /\ f \in Tasks
    /\ winFrom = 0
    /\ GoStart /\ RetryIdle /\ TimeoutIdle /\ RecoverIdle /\ ExtraIdle

Next ==
    \/ GoSpawn \/ GoReturn \/ FnPanic \/ FnReturn \/ RecoverAndLog \/ Lock \/ Compute
    \/ Unlock \/ Wake \/ Restart \/ Tick

Spec == Init /\ [][Next]_vars

\* The goroutines are scheduled fairly, the task does what it is going to
\* do, and time passes.
Fairness ==
    /\ WF_vars(GoSpawn) /\ WF_vars(GoReturn) /\ WF_vars(FnPanic) /\ WF_vars(FnReturn)
    /\ WF_vars(RecoverAndLog) /\ WF_vars(Lock) /\ WF_vars(Compute) /\ WF_vars(Unlock)
    /\ WF_vars(Wake) /\ WF_vars(Restart) /\ WF_vars(Tick)

FairSpec == Spec /\ Fairness

\* A call Go(l, f) for a task that panics at once, StormPanics times in a
\* row, watched over one minute from any of its relaunches.
InitStorm ==
    /\ l \in Loggers /\ f = StormTask
    /\ winFrom \in 1..StormPanics
    /\ GoStart /\ RetryIdle /\ TimeoutIdle /\ RecoverIdle /\ ExtraIdle

NextStorm ==
    \/ GoSpawn \/ GoReturn \/ FnPanic \/ RecoverAndLog \/ Lock \/ Compute
    \/ Unlock \/ Wake \/ Restart \/ TickWhileSleeping

SpecStorm == InitStorm /\ [][NextStorm]_vars


\* --------------------------------------------------------- Retry (lang.go)
Digit(d) == <<"0", "1", "2", "3", "4", "5", "6", "7", "8", "9">>[d + 1]

RECURSIVE Digits(_)
Digits(n) == IF n < 10 THEN <<Digit(n)>> ELSE Digits(n \div 10) \o <<Digit(n % 10)>>

\* the verb %d
Itoa(n) == IF n < 0 THEN <<"-">> \o Digits(0 - n) ELSE Digits(n)

\* fmt.Errorf("failed after %d attempts: %w", n, e): the text, and the
\* wrapped error that Unwrap returns; a nil operand of %w is printed as a
\* bad verb and nothing is wrapped.
Errorf(n, e) ==
    [nil |-> FALSE,
     text |-> <<"failed after ">> \o Itoa(n) \o <<" attempts: ">>
                 \o (IF e.nil THEN <<"%!w(<nil>)">> ELSE e.text),
     cause |-> IF e.nil THEN <<>> ELSE <<e>>]

\* strings.Contains on texts
Contains(s, t) == \E k \in 0..(Len(s) - Len(t)) : SubSeq(s, k + 1, k + Len(t)) = t

\* A loop that ends only when the counter meets maxAttempts.
LoopCondNe(k, m) == k # m

\* A loop that runs once too often.
LoopCondLe(k, m) == k <= m

\* Line 498: the loop condition i < maxAttempts.
LoopCond(k, m) == k < m

\* A loop that keeps the first error it saw.
KeepFirstErr(prev, err) == IF prev.nil THEN err ELSE prev

\* Line 503: lastErr = err.
NextLastErr(prev, err) == err

\* Lines 498-504: one iteration; f is invoked and returns any outcome; a
\* nil error returns the result at once.
RetryAttempt ==
    /\ rpc = "loop"
    /\ LoopCond(i, maxAttempts)
    /\ \E o \in Outcomes :
          /\ calls' = Append(calls, o)
          /\ IF o.err.nil
                THEN /\ rpc' = "done"
                     /\ retVal' = o.val
                     /\ retErr' = NilErr
                     /\ UNCHANGED <<i, lastErr>>
                ELSE /\ lastErr' = NextLastErr(lastErr, o.err)
                     /\ i' = i + 1
                     /\ UNCHANGED <<rpc, retVal, retErr>>
    /\ UNCHANGED <<maxAttempts, goVars, toVars, recVars, extraVars>>

\* A Retry that recovers a panic of f and counts it as a failed attempt.
RetryPanicAsError ==
    /\ rpc = "loop"
    /\ LoopCond(i, maxAttempts)
    /\ fpanicked' = TRUE
    /\ lastErr' = NextLastErr(lastErr, NewError("panic-error"))
    /\ i' = i + 1
    /\ UNCHANGED <<maxAttempts, calls, rpc, retVal, retErr, goVars, toVars, recVars, dipVars, twoVars>>

\* Line 499, f() panics: Retry has no deferred function, so the panic
\* leaves Retry for its caller.
RetryPanic ==
    /\ rpc = "loop"
    /\ LoopCond(i, maxAttempts)
    /\ fpanicked' = TRUE
    /\ rpc' = "panicked"
    /\ UNCHANGED <<maxAttempts, i, lastErr, calls, retVal, retErr, goVars, toVars, recVars,
                   dipVars, twoVars>>

\* Lines 505-506: the loop is over; the zero value and the wrapping error.
RetryExhausted ==
    /\ rpc = "loop"
    /\ ~LoopCond(i, maxAttempts)
    /\ rpc' = "done"
    /\ retVal' = Zero
    /\ retErr' = Errorf(maxAttempts, lastErr)
    /\ UNCHANGED <<maxAttempts, i, lastErr, calls, goVars, toVars, recVars, extraVars>>

\* A call Retry(maxAttempts, f), line 497 done.
InitRetry ==
    /\ maxAttempts \in (0 - MaxNegAttempts)..MaxAttempts
    /\ i = 0 /\ lastErr = NilErr /\ calls = <<>>
    /\ rpc = "loop" /\ retVal = Zero /\ retErr = NilErr
    /\ GoIdle /\ TimeoutIdle /\ RecoverIdle /\ ExtraIdle

NextRetry == RetryAttempt \/ RetryPanic \/ RetryExhausted

SpecRetry == InitRetry /\ [][NextRetry]_vars

\* ------------------------------------------------ RunWithTimeout (lang.go)
\* Lines 517-528: the shared variables, wg.Add(1) and the go statement.
TimeoutStart ==
    /\ tpc = "start"
    /\ tpc' = "eval"
    /\ wg' = wg + 1
    /\ gpc' = "f"
    /\ UNCHANGED <<timeout, fout, result, terr, done, timerLeft, tret, won, first,
                   goVars, retryVars, recVars, extraVars>>

\* Lines 530-533: entering the select evaluates time.After(timeout), which
\* starts the timer; a timeout that is not positive is due at once.
EvalAfter ==
    /\ tpc = "eval"
    /\ tpc' = "select"
    /\ timerLeft' = IF timeout > 0 THEN timeout ELSE 0
    /\ first' = IF timeout <= 0 /\ first = "none" THEN "deadline" ELSE first
    /\ UNCHANGED <<timeout, gpc, fout, result, terr, done, wg, tret, won,
                   goVars, retryVars, recVars, extraVars>>

\* One tick passes for the timer of time.After; at zero its channel delivers.
TimerTick ==
    /\ timerLeft > 0
    /\ timerLeft' = timerLeft - 1
    /\ first' = IF timerLeft = 1 /\ first = "none" THEN "deadline" ELSE first
    /\ UNCHANGED <<timeout, tpc, gpc, fout, result, terr, done, wg, tret, won,
                   goVars, retryVars, recVars, extraVars>>

\* Line 526, the call: f returns some result and error.
FReturn ==
    /\ gpc = "f"
    /\ \E o \in TimeoutOutcomes : fout' = <<o>>
    /\ gpc' = "write"
    /\ first' = IF first = "none" THEN "f" ELSE first
    /\ UNCHANGED <<timeout, tpc, result, terr, done, wg, timerLeft, tret, won,
                   goVars, retryVars, recVars, extraVars>>

\* Line 526, the call: f panics; the goroutine has no recover().
FPanic ==
    /\ gpc = "f"
    /\ fpanicked' = TRUE
    /\ gpc' = "panicking"
    /\ UNCHANGED <<timeout, tpc, fout, result, terr, done, wg, timerLeft, tret, won, first,
                   goVars, retryVars, recVars, dipVars, twoVars>>

\* Line 525 during the panic: the deferred wg.Done() runs, and the panic,
\* recovered by nobody, ends the program.
PanicExit ==
    /\ gpc = "panicking"
    /\ wg' = wg - 1
    /\ gpc' = "crashed"
    /\ tpc' = IF tpc = "returned" THEN tpc ELSE "crashed"
    /\ UNCHANGED <<timeout, fout, result, terr, done, timerLeft, tret, won, first,
                   goVars, retryVars, recVars, extraVars>>

\* Line 526, the assignment to the shared variable result.
WriteResult ==
    /\ gpc = "write"
    /\ result' = fout[1].val
    /\ gpc' = "write2"
    /\ UNCHANGED <<timeout, tpc, fout, terr, done, wg, timerLeft, tret, won, first,
                   goVars, retryVars, recVars, extraVars>>

\* Line 526, the assignment to the shared variable err.
WriteErr ==
    /\ gpc = "write2"
    /\ terr' = fout[1].err
    /\ gpc' = "close"
    /\ UNCHANGED <<timeout, tpc, fout, result, done, wg, timerLeft, tret, won, first,
                   goVars, retryVars, recVars, extraVars>>

\* A goroutine that sends on done instead of closing it: the send waits
\* for the caller to receive.
CloseDoneSends ==
    /\ gpc = "close"
    /\ tpc = "select"
    /\ done' = TRUE
    /\ gpc' = "wgdone"
    /\ UNCHANGED <<timeout, tpc, fout, result, terr, wg, timerLeft, tret, won, first,
                   goVars, retryVars, recVars, extraVars>>

\* Line 527: close(done).
CloseDone ==
    /\ gpc = "close"
    /\ done' = TRUE
    /\ gpc' = "wgdone"
    /\ UNCHANGED <<timeout, tpc, fout, result, terr, wg, timerLeft, tret, won, first,
                   goVars, retryVars, recVars, extraVars>>

\* Line 525: the deferred wg.Done(); the goroutine ends.
WgDone ==
    /\ gpc = "wgdone"
    /\ wg' = wg - 1
    /\ gpc' = "exit"
    /\ UNCHANGED <<timeout, tpc, fout, result, terr, done, timerLeft, tret, won, first,
                   goVars, retryVars, recVars, extraVars>>

\* A caller that reads result and err once f has returned, without waiting
\* for done.
SelectDoneUnsynced ==
    /\ tpc = "select"
    /\ fout # <<>>
    /\ tret' = <<[val |-> result, err |-> terr]>>
    /\ won' = "done"
    /\ tpc' = "returned"
    /\ UNCHANGED <<timeout, gpc, fout, result, terr, done, wg, timerLeft, first,
                   goVars, retryVars, recVars, extraVars>>

\* A done case that returns the zero value in place of result.
SelectDoneZero ==
    /\ tpc = "select"
    /\ done
    /\ tret' = <<[val |-> Zero, err |-> terr]>>
    /\ won' = "done"
    /\ tpc' = "returned"
    /\ UNCHANGED <<timeout, gpc, fout, result, terr, done, wg, timerLeft, first,
                   goVars, retryVars, recVars, extraVars>>

\* Lines 531-532: the select receives from the closed done and returns the
\* shared result and err.
SelectDone ==
    /\ tpc = "select"
    /\ done
    /\ tret' = <<[val |-> result, err |-> terr]>>
    /\ won' = "done"
    /\ tpc' = "returned"
    /\ UNCHANGED <<timeout, gpc, fout, result, terr, done, wg, timerLeft, first,
                   goVars, retryVars, recVars, extraVars>>

\* A timeout case that returns the shared result with ErrTimeout.
SelectTimeoutShared ==
    /\ tpc = "select"
    /\ timerLeft = 0
    /\ tret' = <<[val |-> result, err |-> ErrTimeout]>>
    /\ won' = "timeout"
    /\ tpc' = "returned"
    /\ UNCHANGED <<timeout, gpc, fout, result, terr, done, wg, timerLeft, first,
                   goVars, retryVars, recVars, extraVars>>

\* A timeout case that also stops the goroutine running f.
SelectTimeoutCancels ==
    /\ tpc = "select"
    /\ timerLeft = 0
    /\ tret' = <<[val |-> Zero, err |-> ErrTimeout]>>
    /\ won' = "timeout"
    /\ tpc' = "returned"
    /\ gpc' = "exit"
    /\ UNCHANGED <<timeout, fout, result, terr, done, wg, timerLeft, first,
                   goVars, retryVars, recVars, extraVars>>

\* A timeout case that returns a new error in place of the sentinel.
SelectTimeoutNewError ==
    /\ tpc = "select"
    /\ timerLeft = 0
    /\ tret' = <<[val |-> Zero, err |-> NewError("timeout")]>>
    /\ won' = "timeout"
    /\ tpc' = "returned"
    /\ UNCHANGED <<timeout, gpc, fout, result, terr, done, wg, timerLeft, first,
                   goVars, retryVars, recVars, extraVars>>

\* Lines 533-535: the select receives from the timer's channel and returns
\* the zero value and ErrTimeout.  When both channels are ready the select
\* takes either case.
SelectTimeout ==
    /\ tpc = "select"
    /\ timerLeft = 0
    /\ tret' = <<[val |-> Zero, err |-> ErrTimeout]>>
    /\ won' = "timeout"
    /\ tpc' = "returned"
    /\ UNCHANGED <<timeout, gpc, fout, result, terr, done, wg, timerLeft, first,
                   goVars, retryVars, recVars, extraVars>>

\* A call RunWithTimeout(timeout, f), for any timeout and any f.
InitTimeout ==
    /\ timeout \in (0 - 1)..MaxTimeout
    /\ tpc = "start" /\ gpc = "none" /\ fout = <<>>
    /\ result = Zero /\ terr = NilErr /\ done = FALSE /\ wg = 0
    /\ timerLeft = 0 - 1 /\ tret = <<>> /\ won = "none" /\ first = "none"
    /\ GoIdle /\ RetryIdle /\ RecoverIdle /\ ExtraIdle

NextTimeout ==
    \/ TimeoutStart \/ EvalAfter \/ TimerTick \/ FReturn \/ FPanic \/ PanicExit
    \/ WriteResult \/ WriteErr
    \/ CloseDone \/ WgDone \/ SelectDone \/ SelectTimeout

SpecTimeout == InitTimeout /\ [][NextTimeout]_vars

\* The goroutine started at line 524 is scheduled whenever it can run.
FairnessTimeout ==
    /\ WF_vars(WriteResult) /\ WF_vars(WriteErr) /\ WF_vars(CloseDone) /\ WF_vars(WgDone)

FairSpecTimeout == SpecTimeout /\ FairnessTimeout

\* ------------------------------------------------- Recover* (recover.go)
\* the variables of goVars other than logs
goRest == <<l, f, callerPc, gs, restartLock, lastRestartIsZero, sinceRestart,
            launches, panicked, returns, winFrom, winAge, winCount>>

\* The enclosing function runs `defer X(...)` and then its body, which
\* panics with payload or returns normally; the deferred call runs next.
Body ==
    /\ xpc = "body"
    /\ xpc' = "deferred"
    /\ panicking' = (payload # NoPayload)
    /\ UNCHANGED <<variant, direct, rl, outerNil, outerErr, handlerNil, handled, payload,
                   xret, goVars, retryVars, toVars, extraVars>>

\* The builtin recover() as Recover* calls it: the payload when the
\* goroutine is panicking and Recover* is itself the deferred function, nil
\* when there is no panic or Recover* is called from a deferred closure.
RecoverValue == IF panicking /\ direct THEN payload ELSE NoPayload

\* the verb %v
Sprint(p) == IF p.type = "string" THEN <<p.s>> ELSE Itoa(p.n)

\* fmt.Errorf("%v", panicErr)
ErrorfV(p) == [nil |-> FALSE, text |-> Sprint(p), cause |-> <<>>]

\* A Recover that reports a panic only when it could log it.
RecoverTrueIfLogged ==
    /\ xpc = "deferred" /\ variant = "Recover"
    /\ xpc' = "done"
    /\ LET r == RecoverValue IN
          IF r # NoPayload
             THEN /\ logs' = printErrorWithStack(logs, rl, r)
                  /\ xret' = <<rl # NilLogger>>
                  /\ panicking' = FALSE
             ELSE /\ xret' = <<FALSE>>
                  /\ UNCHANGED <<logs, panicking>>
    /\ UNCHANGED <<variant, direct, rl, outerNil, outerErr, handlerNil, handled, payload,
                   goRest, retryVars, toVars, extraVars>>

\* Recover, lines 66-72.
Recover ==
    /\ xpc = "deferred" /\ variant = "Recover"
    /\ xpc' = "done"
    /\ LET r == RecoverValue IN
          IF r # NoPayload
             THEN /\ logs' = printErrorWithStack(logs, rl, r)
                  /\ xret' = <<TRUE>>
                  /\ panicking' = FALSE
             ELSE /\ xret' = <<FALSE>>
                  /\ UNCHANGED <<logs, panicking>>
    /\ UNCHANGED <<variant, direct, rl, outerNil, outerErr, handlerNil, handled, payload,
                   goRest, retryVars, toVars, extraVars>>

\* A RecoverWithErr that stops the panic and stores nothing.
RecoverWithErrDiscards ==
    /\ xpc = "deferred" /\ variant = "RecoverWithErr"
    /\ xpc' = "done"
    /\ LET r == RecoverValue IN
          IF r # NoPayload
             THEN /\ xret' = <<TRUE>>
                  /\ panicking' = FALSE
             ELSE /\ xret' = <<FALSE>>
                  /\ UNCHANGED panicking
    /\ UNCHANGED <<variant, direct, rl, outerNil, outerErr, handlerNil, handled, payload,
                   goVars, retryVars, toVars, extraVars>>

\* RecoverWithErr without the nil check of line 77: the assignment through
\* a nil pointer panics anew.
RecoverWithErrNoNilCheck ==
    /\ xpc = "deferred" /\ variant = "RecoverWithErr"
    /\ xpc' = "done"
    /\ LET r == RecoverValue IN
          IF r # NoPayload
             THEN IF outerNil
                     THEN /\ panicking' = TRUE
                          /\ UNCHANGED <<outerErr, xret>>
                     ELSE /\ outerErr' = ErrorfV(r)
                          /\ xret' = <<TRUE>>
                          /\ panicking' = FALSE
             ELSE /\ xret' = <<FALSE>>
                  /\ UNCHANGED <<outerErr, panicking>>
    /\ UNCHANGED <<variant, direct, rl, outerNil, handlerNil, handled, payload,
                   goVars, retryVars, toVars, extraVars>>

\* RecoverWithErr, lines 75-83.
RecoverWithErr ==
    /\ xpc = "deferred" /\ variant = "RecoverWithErr"
    /\ xpc' = "done"
    /\ LET r == RecoverValue IN
          IF r # NoPayload
             THEN /\ outerErr' = IF outerNil THEN outerErr ELSE ErrorfV(r)
                  /\ xret' = <<TRUE>>
                  /\ panicking' = FALSE
             ELSE /\ xret' = <<FALSE>>
                  /\ UNCHANGED <<outerErr, panicking>>
    /\ UNCHANGED <<variant, direct, rl, outerNil, handlerNil, handled, payload,
                   goVars, retryVars, toVars, extraVars>>

\* RecoverWithErrAndStack that logs inside the `outerError != nil` block.
RecoverWithErrAndStackNested ==
    /\ xpc = "deferred" /\ variant = "RecoverWithErrAndStack"
    /\ xpc' = "done"
    /\ LET r == RecoverValue IN
          IF r # NoPayload
             THEN /\ outerErr' = IF outerNil THEN outerErr ELSE ErrorfV(r)
                  /\ logs' = IF outerNil THEN logs
                             ELSE printErrorWithStack(logs, rl, ErrorfV(r))
                  /\ xret' = <<TRUE>>
                  /\ panicking' = FALSE
             ELSE /\ xret' = <<FALSE>>
                  /\ UNCHANGED <<outerErr, logs, panicking>>
    /\ UNCHANGED <<variant, direct, rl, outerNil, handlerNil, handled, payload,
                   goRest, retryVars, toVars, extraVars>>

\* RecoverWithErrAndStack, lines 86-96: the error built from the payload is
\* stored and is what is logged.
RecoverWithErrAndStack ==
    /\ xpc = "deferred" /\ variant = "RecoverWithErrAndStack"
    /\ xpc' = "done"
    /\ LET r == RecoverValue IN
          IF r # NoPayload
             THEN /\ outerErr' = IF outerNil THEN outerErr ELSE ErrorfV(r)
                  /\ logs' = printErrorWithStack(logs, rl, ErrorfV(r))
                  /\ xret' = <<TRUE>>
                  /\ panicking' = FALSE
             ELSE /\ xret' = <<FALSE>>
                  /\ UNCHANGED <<outerErr, logs, panicking>>
    /\ UNCHANGED <<variant, direct, rl, outerNil, handlerNil, handled, payload,
                   goRest, retryVars, toVars, extraVars>>

\* RecoverWithHandler that calls the handler before it looks at recover().
RecoverWithHandlerAlways ==
    /\ xpc = "deferred" /\ variant = "RecoverWithHandler"
    /\ xpc' = "done"
    /\ LET r == RecoverValue IN
          /\ handled' = IF handlerNil THEN handled ELSE Append(handled, r)
          /\ IF r # NoPayload
                THEN /\ xret' = <<TRUE>>
                     /\ panicking' = FALSE
                ELSE /\ xret' = <<FALSE>>
                     /\ UNCHANGED panicking
    /\ UNCHANGED <<variant, direct, rl, outerNil, outerErr, handlerNil, payload,
                   goVars, retryVars, toVars, extraVars>>

\* RecoverWithHandler that hands the handler the error built from the payload.
RecoverWithHandlerError ==
    /\ xpc = "deferred" /\ variant = "RecoverWithHandler"
    /\ xpc' = "done"
    /\ LET r == RecoverValue IN
          IF r # NoPayload
             THEN /\ handled' = IF handlerNil THEN handled ELSE Append(handled, ErrorfV(r))
                  /\ xret' = <<TRUE>>
                  /\ panicking' = FALSE
             ELSE /\ xret' = <<FALSE>>
                  /\ UNCHANGED <<handled, panicking>>
    /\ UNCHANGED <<variant, direct, rl, outerNil, outerErr, handlerNil, payload,
                   goVars, retryVars, toVars, extraVars>>

\* RecoverWithHandler, lines 99-107.
RecoverWithHandler ==
    /\ xpc = "deferred" /\ variant = "RecoverWithHandler"
    /\ xpc' = "done"
    /\ LET r == RecoverValue IN
          IF r # NoPayload
             THEN /\ handled' = IF handlerNil THEN handled ELSE Append(handled, r)
                  /\ xret' = <<TRUE>>
                  /\ panicking' = FALSE
             ELSE /\ xret' = <<FALSE>>
                  /\ UNCHANGED <<handled, panicking>>
    /\ UNCHANGED <<variant, direct, rl, outerNil, outerErr, handlerNil, payload,
                   goVars, retryVars, toVars, extraVars>>

\* A function that defers one of the Recover functions, with any arguments,
\* and then panics or returns.
InitRecover ==
    /\ variant \in Variants /\ direct \in BOOLEAN /\ rl \in Loggers
    /\ outerNil \in BOOLEAN /\ outerErr \in {NilErr, NewError("e1")}
    /\ handlerNil \in BOOLEAN /\ handled = <<>>
    /\ payload \in {NoPayload} \cup Payloads
    /\ xpc = "body" /\ panicking = FALSE /\ xret = <<>>
    /\ GoIdle /\ RetryIdle /\ TimeoutIdle /\ ExtraIdle

NextRecover ==
    \/ Body \/ Recover \/ RecoverWithErr \/ RecoverWithErrAndStack \/ RecoverWithHandler

SpecRecover == InitRecover /\ [][NextRecover]_vars

\* The operations that run a caller's f without a recover(): a call of
\* Retry or a call of RunWithTimeout.
InitCallers == InitRetry \/ InitTimeout

NextCallers ==
    \/ RetryAttempt \/ RetryPanic \/ RetryExhausted
    \/ TimeoutStart \/ EvalAfter \/ TimerTick \/ FReturn \/ FPanic \/ PanicExit
    \/ WriteResult \/ WriteErr \/ CloseDone \/ WgDone \/ SelectDone \/ SelectTimeout

SpecCallers == InitCallers /\ [][NextCallers]_vars

\* The operations that trap a panic and hand it to the caller's logger,
\* error variable or handler: a call of Go, or a function that defers one
\* of the Recover functions.
InitTrap == Init \/ InitRecover

NextTrap ==
    \/ GoSpawn \/ GoReturn \/ FnPanic \/ FnReturn \/ RecoverAndLog \/ Lock \/ Compute
    \/ Unlock \/ Wake \/ Restart \/ Tick
    \/ Body \/ Recover \/ RecoverWithErr \/ RecoverWithErrAndStack \/ RecoverWithHandler

SpecTrap == InitTrap /\ [][NextTrap]_vars

\* ------------------------------------------ DefaultIfPanic (recover.go)
Frame(d, g) == [d |-> d, fn |-> g, pc |-> "check", result |-> Zero, inres |-> <<>>]

Top == dstack[Len(dstack)]
SetTop(fr) == [dstack EXCEPT ![Len(dstack)] = fr]
Pop == SubSeq(dstack, 1, Len(dstack) - 1)

\* The call on top of the stack returns v: to the function body that made
\* the call, which goes on after it, or to the caller of the outermost call.
ReturnValue(v) ==
    IF Len(dstack) = 1
       THEN /\ dstack' = <<>>
            /\ dret' = <<v>>
       ELSE /\ dstack' = [Pop EXCEPT ![Len(dstack) - 1] =
                             [@ EXCEPT !.inres = <<v>>, !.pc = "then"]]
            /\ UNCHANGED dret

\* The call on top of the stack ends with its panic still in progress: the
\* body that made the call is abandoned and its deferred function runs.
Unwind ==
    /\ dstack' = IF Len(dstack) = 1 THEN <<>>
                 ELSE [Pop EXCEPT ![Len(dstack) - 1] = [@ EXCEPT !.pc = "deferred"]]
    /\ UNCHANGED dret

\* Lines 124-126 and the defer statement of lines 128-132.
DefaultIfPanicEnter ==
    /\ dstack # <<>> /\ Top.pc = "check"
    /\ IF Top.fn.nil
          THEN ReturnValue(Top.d)
          ELSE /\ dstack' = SetTop([Top EXCEPT !.pc = "body"])
               /\ UNCHANGED dret
    /\ UNCHANGED <<defaultValue, dfn, dpanic, dcalls, fpanicked, twoVars, goVars, retryVars, toVars, recVars>>

\* Line 133, f(): the body of f starts; a body with an inner call makes it.
FBodyStart ==
    /\ dstack # <<>> /\ Top.pc = "body"
    /\ dcalls' = dcalls + 1
    /\ dstack' = IF Top.fn.inner = <<>>
                    THEN SetTop([Top EXCEPT !.pc = "then"])
                    ELSE Append(SetTop([Top EXCEPT !.pc = "call"]),
                                Frame(Top.fn.inner[1].d, Top.fn.inner[1].fn))
    /\ UNCHANGED <<defaultValue, dfn, dpanic, dret, fpanicked, twoVars, goVars, retryVars, toVars, recVars>>

\* Line 133, return f(): f returns, the named result is set and the
\* deferred function runs.
FBodyReturn ==
    /\ dstack # <<>> /\ Top.pc = "then" /\ Top.fn.then # "panic"
    /\ dstack' = SetTop([Top EXCEPT !.pc = "deferred",
                                    !.result = IF Top.fn.then = "return"
                                                  THEN Top.fn.val ELSE Top.inres[1]])
    /\ UNCHANGED <<defaultValue, dfn, dpanic, dret, dcalls, fpanicked, twoVars, goVars, retryVars, toVars, recVars>>

\* Line 133: f panics; the named result keeps its zero value and the
\* deferred function runs.
FBodyPanic ==
    /\ dstack # <<>> /\ Top.pc = "then" /\ Top.fn.then = "panic"
    /\ dpanic' = StrPayload
    /\ dstack' = SetTop([Top EXCEPT !.pc = "deferred"])
    /\ UNCHANGED <<defaultValue, dfn, dret, dcalls, fpanicked, twoVars, goVars, retryVars, toVars, recVars>>

\* A deferred function that sets the default without asking recover().
DeferredAlwaysDefault ==
    /\ dstack # <<>> /\ Top.pc = "deferred"
    /\ dpanic' = NoPayload
    /\ ReturnValue(Top.d)
    /\ UNCHANGED <<defaultValue, dfn, dcalls, fpanicked, twoVars, goVars, retryVars, toVars, recVars>>

\* A deferred function that sets the default and lets the panic go on.
DeferredNoRecover ==
    /\ dstack # <<>> /\ Top.pc = "deferred"
    /\ IF dpanic # NoPayload THEN Unwind ELSE ReturnValue(Top.result)
    /\ UNCHANGED <<defaultValue, dfn, dpanic, dcalls, fpanicked, twoVars, goVars, retryVars, toVars, recVars>>

\* Lines 128-132: the deferred function; recover() stops a panic and the
\* named result becomes defaultValue; the call returns the named result.
DefaultIfPanicDeferred ==
    /\ dstack # <<>> /\ Top.pc = "deferred"
    /\ dpanic' = NoPayload
    /\ ReturnValue(IF dpanic # NoPayload THEN Top.d ELSE Top.result)
    /\ UNCHANGED <<defaultValue, dfn, dcalls, fpanicked, twoVars, goVars, retryVars, toVars, recVars>>

\* A call DefaultIfPanic(defaultValue, dfn), for any default and any f.
InitDefault ==
    /\ defaultValue \in Defaults /\ dfn \in Fns(MaxNesting)
    /\ dstack = <<Frame(defaultValue, dfn)>>
    /\ dpanic = NoPayload /\ dret = <<>> /\ dcalls = 0 /\ fpanicked = FALSE /\ TwoIdle
    /\ GoIdle /\ RetryIdle /\ TimeoutIdle /\ RecoverIdle

NextDefault ==
    \/ DefaultIfPanicEnter \/ FBodyStart \/ FBodyReturn \/ FBodyPanic
    \/ DefaultIfPanicDeferred

SpecDefault == InitDefault /\ [][NextDefault]_vars

\* ------------------------------------------ two calls of Go (recover.go)
nonTwoVars == <<goVars, retryVars, toVars, recVars, dipVars, fpanicked>>

\* Lines 22-23 with one restartLock and one lastRestart for the package.
RestartStateShared(k) == 1

\* Lines 22-23: restartLock and lastRestart are variables of the call of
\* Go, captured by its foo; supervisor k uses the pair of its own call.
RestartState(k) == k

\* fn() panics, the deferred function recovers and logs (lines 30-31, 60).
SupPanic ==
    \E k \in Supervisors :
        /\ sups[k].pc = "fn" /\ sups[k].n < MaxFaults
        /\ sups' = [sups EXCEPT ![k] = [@ EXCEPT !.pc = "lock", !.n = @ + 1]]
        /\ UNCHANGED <<cells, own, clock>>
        /\ UNCHANGED nonTwoVars

\* Line 34.
SupLock ==
    \E k \in Supervisors :
        /\ sups[k].pc = "lock" /\ ~cells[RestartState(k)].lock
        /\ cells' = [cells EXCEPT ![RestartState(k)] = [@ EXCEPT !.lock = TRUE]]
        /\ sups' = [sups EXCEPT ![k] = [@ EXCEPT !.pc = "compute"]]
        /\ UNCHANGED <<own, clock>>
        /\ UNCHANGED nonTwoVars

\* Lines 35-48.
SupCompute ==
    \E k \in Supervisors :
        /\ sups[k].pc = "compute"
        /\ LET c == cells[RestartState(k)] IN
              /\ sups' = [sups EXCEPT ![k] =
                            [@ EXCEPT !.pc = "unlock",
                                      !.delay = RestartDelay(IF c.isZero THEN Minute ELSE c.since,
                                                             c.isZero)]]
              /\ cells' = [cells EXCEPT ![RestartState(k)] =
                              [@ EXCEPT !.isZero = FALSE, !.since = 0]]
        /\ own' = [own EXCEPT ![k] = [isZero |-> FALSE, since |-> 0]]
        /\ UNCHANGED clock
        /\ UNCHANGED nonTwoVars

\* Lines 49-54.
SupUnlock ==
    \E k \in Supervisors :
        /\ sups[k].pc = "unlock"
        /\ cells' = [cells EXCEPT ![RestartState(k)] = [@ EXCEPT !.lock = FALSE]]
        /\ sups' = [sups EXCEPT ![k] =
                       [@ EXCEPT !.pc = IF sups[k].delay > 0 THEN "sleep" ELSE "restart",
                                 !.sleepLeft = sups[k].delay]]
        /\ UNCHANGED <<own, clock>>
        /\ UNCHANGED nonTwoVars

\* Line 53.
SupWake ==
    \E k \in Supervisors :
        /\ sups[k].pc = "sleep" /\ sups[k].sleepLeft = 0
        /\ sups' = [sups EXCEPT ![k] = [@ EXCEPT !.pc = "restart"]]
        /\ UNCHANGED <<cells, own, clock>>
        /\ UNCHANGED nonTwoVars

\* Line 57.
SupRestart ==
    \E k \in Supervisors :
        /\ sups[k].pc = "restart"
        /\ sups' = [sups EXCEPT ![k] = [@ EXCEPT !.pc = "fn", !.delay = 0]]
        /\ UNCHANGED <<cells, own, clock>>
        /\ UNCHANGED nonTwoVars

\* One tick of time passes for both supervisors.
SupTick ==
    /\ clock < MaxTicks
    /\ clock' = clock + 1
    /\ cells' = [k \in Supervisors |->
                    [cells[k] EXCEPT !.since = IF cells[k].isZero THEN @ ELSE Min(@ + 1, Minute)]]
    /\ own' = [k \in Supervisors |->
                  [own[k] EXCEPT !.since = IF own[k].isZero THEN @ ELSE Min(@ + 1, Minute)]]
    /\ sups' = [k \in Supervisors |->
                   [sups[k] EXCEPT !.sleepLeft = IF @ > 0 THEN @ - 1 ELSE @]]
    /\ UNCHANGED nonTwoVars

\* Two calls Go(l, f) with the same logger and the same task, which panics
\* whenever it runs.
InitTwo ==
    /\ sups = [k \in Supervisors |-> [pc |-> "fn", delay |-> 0, sleepLeft |-> 0, n |-> 0]]
    /\ cells = [k \in Supervisors |-> [lock |-> FALSE, isZero |-> TRUE, since |-> 0]]
    /\ own = [k \in Supervisors |-> [isZero |-> TRUE, since |-> 0]]
    /\ clock = 0
    /\ DipIdle /\ fpanicked = FALSE
    /\ GoIdle /\ RetryIdle /\ TimeoutIdle /\ RecoverIdle

NextTwo ==
    \/ SupPanic \/ SupLock \/ SupCompute \/ SupUnlock \/ SupWake \/ SupRestart \/ SupTick

SpecTwo == InitTwo /\ [][NextTwo]_vars

\* ------------------------------------------------------------------ claims

\* C1: at most one execution of f started by a call of Go is running, and a
\* relaunch begins only after the previous execution has panicked and its
\* backoff handling has finished: the only live goroutine is the latest
\* launch, and every relaunch follows a panic.
C1_NoOverlap ==
    /\ Cardinality(gs) <= 1
    /\ \A g \in gs : g.id = launches
    /\ launches <= panicked + 1

C1_Witness == launches >= 3 /\ \E g \in gs : g.pc = "fn" /\ g.id = launches

\* C2: the number of relaunches of f within any 60-second window is at most
\* maxRestartsPerMinute.
C2_AtMost60PerMinute == winCount <= maxRestartsPerMinute

\* the k-th panic (payload k) has been logged
Logged(k) == \E n \in 1..Len(logs) : logs[n][3] = k

\* the k-th panic has been recovered by the deferred function
Recovered(k) == k <= panicked /\ ~\E g \in gs : g.pc = "deferred" /\ g.err = k

\* C3 as stated: every panic of f is logged and is eventually followed by a
\* relaunch of f, for every logger.
C3_LoggedAndRelaunched ==
    /\ [](\A k \in 1..MaxPanics : Recovered(k) => Logged(k))
    /\ \A k \in 1..MaxPanics : (panicked >= k) ~> (launches >= k + 1)

\* C3 amended: every panic of f is eventually followed by a relaunch of f,
\* and is logged when the logger is not nil.
C3_RelaunchedAndLoggedIfLogger ==
    /\ [](l # NilLogger => \A k \in 1..MaxPanics : Recovered(k) => Logged(k))
    /\ \A k \in 1..MaxPanics : (panicked >= k) ~> (launches >= k + 1)

C3_Witness == panicked >= 2 /\ launches >= 3 /\ Logged(1) /\ Logged(2)

\* C4: once an execution of f has returned normally, f is never launched
\* again and nothing more is logged.
C4_NoRelaunchAfterReturn ==
    [][returns >= 1 => (launches' = launches /\ logs' = logs /\ returns' = returns)]_vars

C4_Witness == returns = 1 /\ gs = {} /\ launches >= 2 /\ Len(logs) = launches - 1

\* C5: a task that panics on its first N-1 executions and returns on the
\* N-th is eventually executed exactly N times and never again, the logger
\* having received exactly N-1 entries.
C5_CountingTask ==
    \A n \in 1..(MaxPanics + 1) :
        (f = Task(n - 1, "return")) =>
            <>[](/\ launches = n /\ panicked = n - 1 /\ returns = 1 /\ gs = {}
                 /\ l # NilLogger => Len(logs) = n - 1)

C5_Witness ==
    /\ f = Task(MaxPanics, "return") /\ l = TheLogger
    /\ gs = {} /\ launches = MaxPanics + 1 /\ returns = 1 /\ Len(logs) = MaxPanics

\* number of panics the supervisor has recovered
RecoveredCount == panicked - Cardinality({g \in gs : g.pc = "deferred" /\ g.err # NoPanic})

\* C6: with a non-nil logger the number of Logger.Error calls equals the
\* number of panics recovered.
C6_OneLogPerPanic == l # NilLogger => Len(logs) = RecoveredCount

C6_Witness == l # NilLogger /\ Len(logs) >= 2 /\ returns = 1 /\ gs = {}

\* C7: Go(l, nil) starts no goroutine, logs nothing and does not panic.
C7_NilTaskNoOp ==
    f.nil => /\ gs = {} /\ launches = 0 /\ logs = <<>> /\ panicked = 0
             /\ callerPc \in {"start", "returned"}

C7_Witness == f.nil /\ l = NilLogger /\ callerPc = "returned"

\* C8: Go returns to its caller without waiting for f: once the goroutine
\* is started the return is not blocked by anything f does.
C8_GoDoesNotWait == callerPc = "spawned" => ENABLED GoReturn

C8_Witness ==
    /\ callerPc = "returned" /\ panicked >= 1
    /\ \E g \in gs : g.pc = "fn" /\ g.id > f.panics /\ f.then = "block"

\* C9: for maxAttempts > 0, f is invoked at most maxAttempts times, and
\* when the k-th invocation is the first to return a nil error it is the
\* last one and Retry returns its result with a nil error.
C9_RetryFirstSuccess ==
    maxAttempts > 0 =>
        /\ Len(calls) <= maxAttempts
        /\ \A k \in 1..Len(calls) :
              calls[k].err.nil =>
                  /\ Len(calls) = k /\ rpc = "done"
                  /\ retVal = calls[k].val /\ retErr = NilErr

C9_Witness ==
    /\ rpc = "done" /\ maxAttempts = 3 /\ Len(calls) = 2
    /\ calls[2].err.nil /\ retVal = "success" /\ retErr = NilErr

AllFailed == \A k \in 1..Len(calls) : ~calls[k].err.nil

\* C10: for maxAttempts > 0, when every invocation fails f is invoked
\* exactly maxAttempts times and Retry returns the zero value and an error
\* that wraps the last invocation's error and whose text contains
\* maxAttempts and the last error's text.
C10_RetryExhaustion ==
    (maxAttempts > 0 /\ rpc = "done" /\ AllFailed) =>
        /\ Len(calls) = maxAttempts
        /\ retVal = Zero
        /\ ~retErr.nil
        /\ retErr.cause = <<calls[maxAttempts].err>>
        /\ Contains(retErr.text, Itoa(maxAttempts))
        /\ Contains(retErr.text, calls[maxAttempts].err.text)

C10_Witness ==
    /\ rpc = "done" /\ maxAttempts = 2 /\ Len(calls) = 2
    /\ calls[1] = [val |-> "success", err |-> NewError("e1")]
    /\ calls[2].err = NewError("e2")
    /\ retErr.text = <<"failed after ", "2", " attempts: ", "e2">>


\* C11: for maxAttempts <= 0 f is never invoked and Retry returns the zero
\* value and a non-nil error that wraps no error.
C11_RetryNoAttempts ==
    maxAttempts <= 0 =>
        /\ calls = <<>>
        /\ rpc = "done" =>
              /\ retVal = Zero /\ ~retErr.nil /\ retErr.cause = <<>>
              /\ Contains(retErr.text, Itoa(maxAttempts))

C11_Witness ==
    /\ rpc = "done" /\ maxAttempts < 0 /\ calls = <<>>
    /\ retErr.text = <<"failed after ">> \o Itoa(maxAttempts)
                        \o <<" attempts: ", "%!w(<nil>)">>

\* the pair returned by the timeout case
TimedOut == <<[val |-> Zero, err |-> ErrTimeout]>>

\* C12 as stated: whenever f finishes before the deadline elapses, the call
\* returns f's own result and error through the done case (stated for the
\* positive timeouts, where the deadline lies after the start of the race).
C12_FinishedFirstOwnResult ==
    (tpc = "returned" /\ timeout > 0 /\ first = "f") => (won = "done" /\ tret = fout)

\* C12 amended: when done is closed and the deadline has not elapsed at the
\* moment the select chooses, the call returns f's own result and error.
C12_DoneOnlyOwnResult ==
    [][(tpc = "select" /\ tpc' = "returned" /\ done /\ timerLeft # 0)
          => (won' = "done" /\ tret' = fout)]_vars

C12_Witness ==
    /\ tpc = "returned" /\ won = "done" /\ timerLeft > 0
    /\ tret = <<[val |-> "success", err |-> NewError("e1")]>>

\* C13 as stated: whenever the deadline elapses before f finishes, the call
\* returns the zero value and ErrTimeout (stated for the positive timeouts).
C13_DeadlineFirstTimeout ==
    (tpc = "returned" /\ timeout > 0 /\ first = "deadline")
        => (won = "timeout" /\ tret = TimedOut)

\* C13 amended: when the deadline has elapsed and done is not closed at the
\* moment the select chooses, the call returns the zero value and
\* ErrTimeout at once, whatever f returns later.
C13_DeadlineOnlyTimeout ==
    /\ [][(tpc = "select" /\ tpc' = "returned" /\ ~done /\ timerLeft = 0)
             => (won' = "timeout" /\ tret' = TimedOut)]_vars
    /\ [][won = "timeout" => tret' = TimedOut]_vars

C13_Witness ==
    /\ tpc = "returned" /\ won = "timeout" /\ tret = TimedOut
    /\ gpc = "exit" /\ fout = <<[val |-> "success", err |-> NilErr]>>

\* C14: after ErrTimeout has been returned f is not cancelled: its
\* goroutine ends only after f has returned and done is closed, and the
\* pair already returned never changes.
C14_NotCancelled ==
    /\ [](gpc = "exit" => (fout # <<>> /\ done /\ result = fout[1].val /\ terr = fout[1].err))
    /\ [][tpc = "returned" => (tret' = tret /\ won' = won)]_vars

C14_Witness ==
    /\ won = "timeout" /\ tret = TimedOut /\ gpc = "exit" /\ wg = 0
    /\ result = "success" /\ terr = NewError("e1") /\ done

\* C15 as stated: the returned error is ErrTimeout if and only if the
\* deadline won the race, whatever error f returns.
C15_TimeoutIffDeadlineWon ==
    tpc = "returned" => (tret[1].err = ErrTimeout <=> won = "timeout")

\* C15 amended: the returned error is ErrTimeout if and only if the
\* deadline won the race or f itself returned ErrTimeout.
C15_TimeoutIffDeadlineWonOrOwn ==
    tpc = "returned" =>
        (tret[1].err = ErrTimeout <=>
            (won = "timeout" \/ (won = "done" /\ fout[1].err = ErrTimeout)))

C15_Witness ==
    /\ tpc = "returned" /\ won = "done" /\ timerLeft = 0
    /\ tret[1].err = NewError("e1")


\* the deferred function `name` has run, deferred directly, after a panic
RecoveredBy(name) ==
    variant = name /\ direct /\ xpc = "done" /\ payload # NoPayload

\* C16: Recover(l), deferred, returns true exactly when the enclosing
\* function panicked; on a panic it stops the panic and calls l.Error once
\* with the stack and the payload when l is not nil, and logs nothing when
\* l is nil.
C16_Recover ==
    (variant = "Recover" /\ direct /\ xpc = "done") =>
        /\ xret = <<payload # NoPayload>>
        /\ ~panicking
        /\ logs = IF payload # NoPayload /\ rl # NilLogger
                     THEN << <<"stack", "error", payload>> >> ELSE <<>>

C16_Witness ==
    /\ RecoveredBy("Recover") /\ rl = NilLogger /\ xret = <<TRUE>>
    /\ ~panicking /\ logs = <<>>

\* C17: when the enclosing function does not panic, each of the four
\* functions returns false, logs nothing, leaves *outerError as it was and
\* does not call the handler.
C17_NoPanicNoEffect ==
    [][payload = NoPayload =>
          /\ logs' = logs /\ outerErr' = outerErr /\ handled' = handled /\ ~panicking'
          /\ xpc' = "done" => xret' = <<FALSE>>]_vars

C17_Witness ==
    /\ payload = NoPayload /\ xpc = "done" /\ xret = <<FALSE>>
    /\ variant = "RecoverWithHandler" /\ ~handlerNil /\ handled = <<>>
    /\ ~outerNil /\ outerErr = NewError("e1") /\ rl = TheLogger /\ logs = <<>>

\* C18: RecoverWithErr(outerError), deferred, on a panic with payload p
\* stops the panic, returns true and sets *outerError to an error whose text
\* is the string form of p; with a nil outerError it assigns nothing and
\* still returns true; it never logs.
C18_RecoverWithErr ==
    RecoveredBy("RecoverWithErr") =>
        /\ xret = <<TRUE>> /\ ~panicking /\ logs = <<>>
        /\ ~outerNil =>
              /\ ~outerErr.nil
              /\ payload = StrPayload => outerErr.text = <<"panic-error">>
              /\ payload = IntPayload => outerErr.text = <<"4", "2">>

C18_Witness ==
    /\ RecoveredBy("RecoverWithErr") /\ outerNil /\ rl = TheLogger
    /\ xret = <<TRUE>> /\ ~panicking

\* C19: RecoverWithErrAndStack(l, outerError) on a panic sets *outerError
\* when outerError is not nil, whatever l is, logs once when l is not nil,
\* whatever outerError is, and returns true in all four combinations.
C19_RecoverWithErrAndStack ==
    RecoveredBy("RecoverWithErrAndStack") =>
        /\ xret = <<TRUE>> /\ ~panicking
        /\ ~outerNil => outerErr = ErrorfV(payload)
        /\ logs = IF rl # NilLogger
                     THEN << <<"stack", "error", ErrorfV(payload)>> >> ELSE <<>>

C19_Witness ==
    /\ RecoveredBy("RecoverWithErrAndStack") /\ outerNil /\ rl = TheLogger
    /\ Len(logs) = 1 /\ xret = <<TRUE>>

\* C20: RecoverWithHandler(handler), deferred, on a panic with payload p
\* stops the panic, returns true and calls handler exactly once with p
\* itself; with a nil handler nothing is called and it still returns true.
C20_RecoverWithHandler ==
    RecoveredBy("RecoverWithHandler") =>
        /\ xret = <<TRUE>> /\ ~panicking
        /\ handled = IF handlerNil THEN <<>> ELSE <<payload>>

C20_Witness ==
    /\ RecoveredBy("RecoverWithHandler") /\ ~handlerNil
    /\ payload = IntPayload /\ handled = <<IntPayload>> /\ xret = <<TRUE>>


\* the outermost call DefaultIfPanic(defaultValue, dfn) has ended
DefaultIfPanicEnded == dstack = <<>>

\* C21: DefaultIfPanic(d, f) returns f's result when f returns normally,
\* whether or not that result is the zero value or equals d; returns d when
\* f panics, and the panic does not reach the caller; returns d and runs
\* nothing when f is nil.
C21_DefaultIfPanic ==
    (DefaultIfPanicEnded /\ (dfn.nil \/ dfn.inner = <<>>)) =>
        /\ dpanic = NoPayload
        /\ dfn.nil => (dret = <<defaultValue>> /\ dcalls = 0)
        /\ (~dfn.nil /\ dfn.then = "return") => (dret = <<dfn.val>> /\ dcalls = 1)
        /\ (~dfn.nil /\ dfn.then = "panic") => (dret = <<defaultValue>> /\ dcalls = 1)

C21_Witness ==
    /\ DefaultIfPanicEnded /\ ~dfn.nil /\ dfn.inner = <<>> /\ dfn.then = "return"
    /\ dfn.val = Zero /\ dret = <<Zero>> /\ defaultValue = "default"

\* C22: when an inner DefaultIfPanic absorbs a panic and returns its own
\* default, the outer function goes on after the inner call, having
\* received the inner default, and the outer DefaultIfPanic returns the
\* outer function's normal result, not the outer default.
C22_NestedIndependent ==
    /\ (DefaultIfPanicEnded /\ dfn.inner # <<>>
          /\ ~dfn.inner[1].fn.nil /\ dfn.inner[1].fn.inner = <<>>
          /\ dfn.inner[1].fn.then = "panic") =>
           /\ dpanic = NoPayload /\ dcalls = 2
           /\ dfn.then = "return" => dret = <<dfn.val>>
           /\ dfn.then = "returnInner" => dret = <<dfn.inner[1].d>>
    /\ \A k \in 1..Len(dstack) :
           (dstack[k].pc = "then" /\ dstack[k].fn.inner # <<>>
                /\ ~dstack[k].fn.inner[1].fn.nil /\ dstack[k].fn.inner[1].fn.inner = <<>>
                /\ dstack[k].fn.inner[1].fn.then = "panic") =>
               (dstack[k].inres = <<dstack[k].fn.inner[1].d>> /\ dpanic = NoPayload)

C22_Witness ==
    /\ DefaultIfPanicEnded /\ dfn.inner # <<>> /\ dfn.inner[1].fn = Fn(<<>>, "panic", Zero)
    /\ dfn.inner[1].d = "default" /\ defaultValue = "success" /\ dfn.then = "return"
    /\ dfn.val = Zero /\ dret = <<Zero>>


\* a Recover function has stopped a panic of the enclosing function
Trapped == xpc = "done" /\ xret = <<TRUE>>

\* the payload stopped by the Recover function was handed to the logger,
\* stored in *outerError or handed to the handler
ReachedSink ==
    \/ \E n \in 1..Len(logs) : logs[n][3] \in {payload, ErrorfV(payload)}
    \/ ~outerNil /\ outerErr = ErrorfV(payload)
    \/ \E n \in 1..Len(handled) : handled[n] = payload

\* the caller handed the Recover function somewhere to put the payload
HasSink ==
    CASE variant = "Recover" -> rl # NilLogger
      [] variant = "RecoverWithErr" -> ~outerNil
      [] variant = "RecoverWithErrAndStack" -> rl # NilLogger \/ ~outerNil
      [] variant = "RecoverWithHandler" -> ~handlerNil

\* C23 as stated: a panic trapped by Recover, RecoverWithErr,
\* RecoverWithErrAndStack, RecoverWithHandler or Go reaches the logger,
\* *outerError or the handler, for every combination of arguments.
C23_NeverDropped ==
    /\ Trapped => ReachedSink
    /\ callerPc # "idle" => \A k \in 1..MaxPanics : Recovered(k) => Logged(k)

\* C23 amended: a trapped panic reaches the logger, *outerError or the
\* handler exactly when the caller handed the operation one that is not
\* nil; with none, the panic is stopped and its payload is dropped.
C23_DroppedOnlyWithoutSink ==
    /\ Trapped => (ReachedSink <=> HasSink)
    /\ callerPc # "idle" =>
          IF l # NilLogger THEN \A k \in 1..MaxPanics : Recovered(k) => Logged(k)
                           ELSE logs = <<>>

C23_Witness ==
    /\ Trapped /\ variant = "RecoverWithErrAndStack" /\ rl = NilLogger /\ ~outerNil
    /\ outerErr = ErrorfV(payload) /\ logs = <<>>


\* C24: with RecoverWithErr(&err) called from inside a deferred closure, a
\* panic of the enclosing function is stopped, RecoverWithErr returns true
\* and err is set to the error built from the payload.
C24_ClosureUsageRecovers ==
    (variant = "RecoverWithErr" /\ ~direct /\ ~outerNil /\ xpc = "done"
         /\ payload # NoPayload) =>
        (xret = <<TRUE>> /\ ~panicking /\ outerErr = ErrorfV(payload))


\* the delay the claim gives for a fault at the present moment
ClaimedDelay ==
    IF lastRestartIsZero \/ sinceRestart >= Second THEN 0 ELSE Second - sinceRestart

\* C25: on each recovered panic the sleep before the relaunch is 0 when
\* lastRestart is unset or at least one second old, and one second less the
\* age of lastRestart otherwise; it is always within [0, 1 second].
C25_Delay ==
    [][\A g \in gs : g.pc = "compute" =>
          \A h \in gs' : (h.id = g.id /\ h.pc = "unlock") =>
              /\ h.delay = ClaimedDelay
              /\ h.delay >= 0 /\ h.delay <= Second]_vars

C25_Witness ==
    \E g \in gs : g.pc = "unlock" /\ g.delay = Second - 1 /\ g.delay > 0 /\ g.id >= 2


C27_PanicNotConverted ==
    /\ [](fpanicked /\ rpc # "idle" =>
             (rpc = "panicked" /\ retVal = Zero /\ retErr = NilErr))
    /\ [][fpanicked /\ rpc # "idle" => UNCHANGED retryVars]_vars
    /\ [](fpanicked /\ tpc # "idle" =>
             /\ gpc \in {"panicking", "crashed"}
             /\ ~done /\ fout = <<>> /\ result = Zero /\ terr = NilErr
             /\ tpc = "returned" => (won = "timeout" /\ tret = TimedOut))
    /\ [][(fpanicked /\ tpc # "returned" /\ tpc' = "returned") => timerLeft = 0]_vars

C27_Witness ==
    /\ fpanicked /\ gpc = "crashed" /\ tpc = "crashed" /\ timerLeft > 0 /\ tret = <<>>

C27_WitnessRetry ==
    /\ fpanicked /\ rpc = "panicked" /\ Len(calls) = 1 /\ maxAttempts = 3


\* the delay a supervisor owes to its own faults alone
OwnDelay(k) == RestartDelay(IF own[k].isZero THEN Minute ELSE own[k].since, own[k].isZero)

\* C28: the restart state belongs to the call of Go: the lastRestart of a
\* supervisor is always the time of its own last fault, its lock is held by
\* nobody else, and the delay it computes is the one its own faults alone
\* give, whatever the other supervisor does.
C28_PerCallState ==
    /\ [](\A k \in Supervisors :
             /\ cells[k].isZero = own[k].isZero
             /\ cells[k].since = own[k].since
             /\ cells[k].lock <=> sups[k].pc \in {"compute", "unlock"})
    /\ [][\A k \in Supervisors :
             (sups[k].pc = "compute" /\ sups'[k].pc = "unlock")
                 => sups'[k].delay = OwnDelay(k)]_vars

C28_Witness ==
    /\ sups[1].pc = "unlock" /\ sups[1].delay = 0 /\ sups[1].n = 2
    /\ sups[2].pc = "sleep" /\ sups[2].delay > 0 /\ own[2].since = 0


\* C29: RunWithTimeout starts f once and only once, for every timeout, and
\* once f has returned its goroutine closes done and ends, whether or not
\* the caller has already returned.
C29_OnceAndTerminates ==
    /\ [](tpc \in {"eval", "select", "returned"} => gpc # "none")
    /\ [][gpc' = "f" => (gpc = "f" \/ (gpc = "none" /\ tpc = "start"))]_vars
    /\ [][tpc' = "start" => tpc = "start"]_vars
    /\ (fout # <<>>) ~> (gpc = "exit" /\ done /\ wg = 0)

C29_Witness ==
    /\ timeout < 0 /\ tpc = "returned" /\ won = "timeout" /\ gpc = "exit" /\ done /\ wg = 0

\* C30: the caller reads result and err only after done is closed, which
\* happens after both have been written, and the timeout case does not read
\* them: the pair returned is f's own pair or the zero value with
\* ErrTimeout, never a half-written or mixed one.
C30_NoRace ==
    /\ [][(tpc = "select" /\ tpc' = "returned" /\ won' = "done") =>
             /\ done /\ gpc \in {"wgdone", "exit"}
             /\ result = fout[1].val /\ terr = fout[1].err]_vars
    /\ [][(result' # result \/ terr' # terr) => (~done /\ ~done' /\ won # "done")]_vars
    /\ [](tpc = "returned" => tret = IF won = "done" THEN fout ELSE TimedOut)

C30_Witness ==
    /\ tpc = "returned" /\ won = "timeout" /\ tret = TimedOut
    /\ gpc = "write2" /\ result = "success" /\ terr = NilErr /\ fout[1].err = NewError("e1")

====
